---- MODULE Spec2Model ----
(***************************************************************************)
(* A model of aggregate_principals.py: the CrewReader pipeline             *)
(*   __init__ -> merge_crew -> map_crew -> write_to_csv                    *)
(* run by the script's __main__ block.                                     *)
(*                                                                         *)
(* A string is a sequence of one-character strings, so that ','.join and   *)
(* str.split(',') are computed character by character.  A table (a pandas  *)
(* DataFrame) is a sequence of records, one per row, in row order.  Cells  *)
(* are non-empty strings: read_csv never yields an empty string.           *)
(***************************************************************************)
EXTENDS Integers, Sequences, FiniteSets, TLC

VARIABLES
    crew_file,       \* rows of title.crew.tsv.gz
    principals_file, \* rows of title.principals.tsv.gz
    names_file,      \* rows of name.basics.tsv.gz
    crew,            \* self.crew
    principals,      \* self.principals
    names,           \* self.names
    merged_crew,     \* self.merged_crew
    mappings,        \* map_crew's local dict
    i, j,            \* map_crew's row and column loop positions
    field,           \* map_crew's local: the cell being resolved
    k,               \* position of the inner loop in field
    names_l,         \* map_crew's local list "names"
    name,            \* map_crew's local "name"
    pc,              \* position of __main__
    queries,         \* history: identifiers looked up in self.names, in order
    merged_ids,      \* history: merged_crew as merge_crew left it
    output,          \* content of crew_info.csv
    ids,             \* round trip: a sequence of identifiers
    joined,          \* round trip: ','.join(ids)
    pieces,          \* round trip: joined.split(',')
    rejoined         \* round trip: ','.join(pieces)

vars == <<crew_file, principals_file, names_file, crew, principals, names,
          merged_crew, mappings, i, j, field, k, names_l, name, pc, queries,
          merged_ids, output, ids, joined, pieces, rejoined>>

\* the variables of the run of __main__ but pc, and those of the round trip
main_vars == <<crew_file, principals_file, names_file, crew, principals, names,
               merged_crew, mappings, i, j, field, k, names_l, name, queries,
               merged_ids, output>>
trip_vars == <<ids, joined, pieces, rejoined>>

----------------------------------------------------------------------------
(* Bounds of the model *)

\* rows of the crew, principals and names files, and of the three together
MaxCrew == 2
MaxPrincipals == 2
MaxNames == 2
MaxRows == 6
\* identifiers of a round trip, and characters of each
MaxIds == 3
MaxIdLen == 2

----------------------------------------------------------------------------
(* Strings *)

Comma == ","

\* str.join: ','.join(seq)
RECURSIVE Join(_)
Join(seq) ==
    IF seq = <<>> THEN <<>>
    ELSE IF Len(seq) = 1 THEN seq[1]
    ELSE seq[1] \o <<Comma>> \o Join(Tail(seq))

\* position of the first comma of s, 0 when there is none
FirstComma(s) ==
    IF \E n \in 1..Len(s) : s[n] = Comma
    THEN CHOOSE n \in 1..Len(s) : s[n] = Comma /\ \A m \in 1..(n-1) : s[m] # Comma
    ELSE 0

\* A split that cuts the string at its first comma only.
SplitFirstOnly(s) ==
    IF FirstComma(s) = 0 THEN <<s>>
    ELSE <<SubSeq(s, 1, FirstComma(s) - 1), SubSeq(s, FirstComma(s) + 1, Len(s))>>

\* str.split(','): the pieces between the commas, empty pieces included
RECURSIVE Split(_)
Split(s) ==
    IF FirstComma(s) = 0 THEN <<s>>
    ELSE <<SubSeq(s, 1, FirstComma(s) - 1)>>
             \o Split(SubSeq(s, FirstComma(s) + 1, Len(s)))

----------------------------------------------------------------------------
(* The films of interest and the values of the input files *)

MOVIE_IDS ==
    {"tt0050083", "tt0062622", "tt0066921", "tt0026778", "tt0044081",
     "tt0042192", "tt0074119", "tt0069704", "tt0075686", "tt0078788",
     "tt0052618", "tt0083658", "tt0061418", "tt0029947", "tt0064115",
     "tt0068327", "tt0034583", "tt0071315", "tt0033467", "tt0021749",
     "tt0097216", "tt0036775", "tt0057012", "tt0023969", "tt0064276",
     "tt0109830", "tt0031381", "tt0099685", "tt0044706", "tt0061811",
     "tt0025316", "tt0038650", "tt0073195", "tt0024216", "tt0056172",
     "tt0066026", "tt0064665", "tt0027977", "tt0031679", "tt0073440",
     "tt0074958", "tt0053125", "tt0047296", "tt0073486", "tt0091763",
     "tt0054215", "tt0110912", "tt0081398", "tt0082971", "tt0047396",
     "tt0075148", "tt0120815", "tt0108052", "tt0046303", "tt0045152",
     "tt0029583", "tt0053291", "tt0084707", "tt0054331", "tt0076759",
     "tt0034240", "tt0018455", "tt0043014", "tt0028333", "tt0075314",
     "tt0043265", "tt0053604", "tt0036868", "tt0050212", "tt0077416",
     "tt0067116", "tt0017925", "tt0068646", "tt0071562", "tt0015864",
     "tt0061722", "tt0032551", "tt0067328", "tt0120737", "tt0033870",
     "tt0032904", "tt0049730", "tt0111161", "tt0102926", "tt0167404",
     "tt0059742", "tt0040897", "tt0065214", "tt0032138", "tt0120338",
     "tt0056592", "tt0084805", "tt0114709", "tt0105695", "tt0052357",
     "tt0055614", "tt0061184", "tt0035575"}

\* film identifiers of the input files, in ascending (lexicographic) order:
\* one outside MOVIE_IDS, two inside
Tconsts == <<"tt0000001", "tt0050083", "tt0062622">>

TconstSet == {Tconsts[n] : n \in 1..Len(Tconsts)}

\* rank of a film identifier in the ascending order of the identifiers
Rank(t) == CHOOSE n \in 1..Len(Tconsts) : Tconsts[n] = t

\* person identifiers: two plain ones, one with an embedded comma
P == <<"p">>
Q == <<"q">>
PQ == <<"p", ",", "q">>

\* the "no value" marker of the IMDb files, \N
NoValue == <<"\\", "N">>

\* display names
NameA == <<"A">>
NameB == <<"B">>

\* rows of the crew file: a film of interest with two directors, the same
\* film again with no known director or writer, a second film of interest,
\* and a film that is not of interest
CrewRows ==
    { [tconst |-> Tconsts[2], directors |-> Join(<<P, Q>>), writers |-> P],
      [tconst |-> Tconsts[2], directors |-> NoValue, writers |-> NoValue],
      [tconst |-> Tconsts[3], directors |-> P, writers |-> P],
      [tconst |-> Tconsts[1], directors |-> Join(<<P, Q>>), writers |-> P] }

\* rows of the principals file: actors and a director of the first film of
\* interest, an actor of the second, an actor of the film not of interest
PrincipalRows ==
    { [tconst |-> Tconsts[2], nconst |-> P, category |-> "actor"],
      [tconst |-> Tconsts[2], nconst |-> Q, category |-> "actor"],
      [tconst |-> Tconsts[2], nconst |-> PQ, category |-> "actor"],
      [tconst |-> Tconsts[2], nconst |-> Q, category |-> "director"],
      [tconst |-> Tconsts[3], nconst |-> P, category |-> "actor"],
      [tconst |-> Tconsts[1], nconst |-> P, category |-> "actor"] }

\* rows of the names file: two rows for one person, one for another, and
\* one for the marker
NameRows ==
    { [nconst |-> P, primaryName |-> NameA],
      [nconst |-> P, primaryName |-> NameB],
      [nconst |-> Q, primaryName |-> NameB],
      [nconst |-> NoValue, primaryName |-> NameA] }

\* the tables of at most n rows drawn from rows
Tables(rows, n) == UNION { [1..m -> rows] : m \in 0..n }

----------------------------------------------------------------------------
(* Table operations of pandas *)

\* A filter that keeps every row.
FilterNothing(table) == table

\* Series.isin(MOVIE_IDS) under .loc: the rows whose film is of interest
FilterMovies(table) == SelectSeq(table, LAMBDA r : r.tconst \in MOVIE_IDS)

\* principals.loc[principals.category == "actor",]
FilterActors(table) == SelectSeq(table, LAMBDA r : r.category = "actor")

\* the nconst cells of the rows of a film, in row order
NconstOf(table, t) ==
    LET rows == SelectSeq(table, LAMBDA r : r.tconst = t)
    IN  [n \in 1..Len(rows) |-> rows[n].nconst]

\* the films of a table
Keys(table) == {table[n].tconst : n \in 1..Len(table)}

\* the keys of a group-by, ascending
RECURSIVE SortedKeys(_)
SortedKeys(S) ==
    IF S = {} THEN <<>>
    ELSE LET t == CHOOSE x \in S : \A y \in S : Rank(x) <= Rank(y)
         IN  <<t>> \o SortedKeys(S \ {t})

\* A group-by that keeps one row per source row instead of one per film.
GroupActorsUngrouped(actors) ==
    [n \in 1..Len(actors) |->
        [tconst |-> actors[n].tconst, nconst |-> actors[n].nconst]]

\* A group-by that joins the identifiers of each film in reverse row order.
GroupActorsReversed(actors) ==
    LET keys == SortedKeys(Keys(actors))
        rev(s) == [n \in 1..Len(s) |-> s[Len(s) + 1 - n]]
    IN  [n \in 1..Len(keys) |->
            [tconst |-> keys[n], nconst |-> Join(rev(NconstOf(actors, keys[n])))]]

\* actors.groupby("tconst")["nconst"].apply(lambda x: ','.join(x)).reset_index()
GroupActors(actors) ==
    LET keys == SortedKeys(Keys(actors))
    IN  [n \in 1..Len(keys) |->
            [tconst |-> keys[n], nconst |-> Join(NconstOf(actors, keys[n]))]]

\* the rows an inner join yields for one left row
MergeRow(l, right) ==
    LET m == SelectSeq(right, LAMBDA r : r.tconst = l.tconst)
    IN  [n \in 1..Len(m) |->
            [tconst |-> l.tconst, directors |-> l.directors,
             writers |-> l.writers, nconst |-> m[n].nconst]]

\* A join that stops after the first left row.
MergeFirstLeft(left, right) ==
    IF left = <<>> THEN <<>> ELSE MergeRow(Head(left), right)

\* pd.merge(left, right, how="inner") on the one common column, tconst:
\* the order of the left rows is kept
RECURSIVE Merge(_, _)
Merge(left, right) ==
    IF left = <<>> THEN <<>>
    ELSE MergeRow(Head(left), right) \o Merge(Tail(left), right)

\* the cell of a column, with the marker taken for "no identifier"
SplitKnown(s) == IF s = NoValue THEN <<>> ELSE Split(s)

\* A split of the columns that special-cases the marker.
SplitRowKnown(r) ==
    [tconst |-> r.tconst, directors |-> SplitKnown(r.directors),
     writers |-> SplitKnown(r.writers), actors |-> Split(r.nconst)]

\* the three .str.split(',') and the projection on four columns
SplitRow(r) ==
    [tconst |-> r.tconst, directors |-> Split(r.directors),
     writers |-> Split(r.writers), actors |-> Split(r.nconst)]

----------------------------------------------------------------------------
(* Lookup in the names table *)

\* names.loc[names.nconst == nconst, "primaryName"].values
Matches(table, nconst) ==
    LET rows == SelectSeq(table, LAMBDA r : r.nconst = nconst)
    IN  [n \in 1..Len(rows) |-> rows[n].primaryName]

\* A lookup that takes the last matching row.
LookupLast(table, nconst) == Matches(table, nconst)[Len(Matches(table, nconst))]

\* .values[0]: the first matching row (an IndexError when there is none)
Lookup(table, nconst) == Matches(table, nconst)[1]

\* map_crew's columns of interest: iloc columns 1, 2 and 3
Column(c) == <<"tconst", "directors", "writers", "actors">>[c + 1]

\* merged_crew.iloc[r, c], rows counted from 0
Cell(table, r, c) == table[r + 1][Column(c)]

\* merged_crew.iloc[r, c] = value
SetCell(table, r, c, value) ==
    [table EXCEPT ![r + 1] = [@ EXCEPT ![Column(c)] = value]]

----------------------------------------------------------------------------
(* The run of __main__ *)

NoFile == [exists |-> FALSE, rows |-> <<>>]

Init ==
    /\ crew_file \in Tables(CrewRows, MaxCrew)
    /\ principals_file \in Tables(PrincipalRows, MaxPrincipals)
    /\ names_file \in Tables(NameRows, MaxNames)
    /\ Len(crew_file) + Len(principals_file) + Len(names_file) <= MaxRows
    /\ crew = <<>>
    /\ principals = <<>>
    /\ names = <<>>
    /\ merged_crew = <<>>
    /\ mappings = <<>>
    /\ i = 0
    /\ j = 1
    /\ field = <<>>
    /\ k = 1
    /\ names_l = <<>>
    /\ name = <<>>
    /\ pc = "init"
    /\ queries = <<>>
    /\ merged_ids = <<>>
    /\ output = NoFile
    /\ ids = <<>>
    /\ joined = <<>>
    /\ pieces = <<>>
    /\ rejoined = <<>>

\* CrewReader.__init__: read the three files, keep the films of interest
CrewReaderInit ==
    /\ pc = "init"
    /\ crew' = FilterMovies(crew_file)
    /\ principals' = FilterMovies(principals_file)
    /\ names' = names_file
    /\ pc' = "merge_crew"
    /\ UNCHANGED <<crew_file, principals_file, names_file, merged_crew, mappings,
                   i, j, field, k, names_l, name, queries, merged_ids, output,
                   trip_vars>>

\* the value merge_crew leaves in self.merged_crew
MergedCrew(c, p) ==
    LET m == Merge(c, GroupActors(FilterActors(p)))
    IN  [n \in 1..Len(m) |-> SplitRow(m[n])]

\* CrewReader.merge_crew
merge_crew ==
    /\ pc = "merge_crew"
    /\ merged_crew' = MergedCrew(crew, principals)
    /\ merged_ids' = merged_crew'
    /\ pc' = "map_crew"
    /\ UNCHANGED <<crew_file, principals_file, names_file, crew, principals,
                   names, mappings, i, j, field, k, names_l, name, queries,
                   output,
                   trip_vars>>

\* map_crew up to the first cell: an empty dict, then the head of the loops
MapCrewBegin ==
    /\ pc = "map_crew"
    /\ mappings' = <<>>
    /\ i' = 0
    /\ j' = 1
    /\ k' = 1
    /\ names_l' = <<>>
    /\ IF Len(merged_crew) = 0
       THEN /\ pc' = "write_to_csv"
            /\ field' = field
       ELSE /\ pc' = "for_nconst"
            /\ field' = Cell(merged_crew, 0, 1)
    /\ UNCHANGED <<crew_file, principals_file, names_file, crew, principals,
                   names, merged_crew, name, queries, merged_ids, output,
                   trip_vars>>

\* A cached pass that appends nothing to the list of names.
MapCachedNoAppend ==
    /\ pc = "for_nconst"
    /\ k <= Len(field)
    /\ field[k] \in DOMAIN mappings
    /\ name' = mappings[field[k]]
    /\ k' = k + 1
    /\ UNCHANGED <<crew_file, principals_file, names_file, crew, principals,
                   names, merged_crew, mappings, i, j, field, pc, queries,
                   merged_ids, output, names_l, trip_vars>>

\* one pass of "for nconst in field" that finds nconst in mappings
MapCached ==
    /\ pc = "for_nconst"
    /\ k <= Len(field)
    /\ field[k] \in DOMAIN mappings
    /\ name' = mappings[field[k]]
    /\ names_l' = Append(names_l, name')
    /\ k' = k + 1
    /\ UNCHANGED <<crew_file, principals_file, names_file, crew, principals,
                   names, merged_crew, mappings, i, j, field, pc, queries,
                   merged_ids, output,
                   trip_vars>>

\* A store that replaces the dict by one of a single entry.
StoreAlone(m, nconst, value) == [x \in {nconst} |-> value]

\* the dict after mappings[nconst] = name
Store(m, nconst, value) ==
    [x \in DOMAIN m \cup {nconst} |-> IF x = nconst THEN value ELSE m[x]]

\* one pass of "for nconst in field" that queries the names table and finds a row
MapLookup ==
    /\ pc = "for_nconst"
    /\ k <= Len(field)
    /\ field[k] \notin DOMAIN mappings
    /\ Matches(names, field[k]) # <<>>
    /\ queries' = Append(queries, field[k])
    /\ name' = Lookup(names, field[k])
    /\ mappings' = Store(mappings, field[k], name')
    /\ names_l' = Append(names_l, name')
    /\ k' = k + 1
    /\ UNCHANGED <<crew_file, principals_file, names_file, crew, principals,
                   names, merged_crew, i, j, field, pc, merged_ids, output,
                   trip_vars>>

\* A failed lookup that keeps the identifier as the name and goes on.
MapLookupKeepId ==
    /\ pc = "for_nconst"
    /\ k <= Len(field)
    /\ field[k] \notin DOMAIN mappings
    /\ Matches(names, field[k]) = <<>>
    /\ queries' = Append(queries, field[k])
    /\ name' = field[k]
    /\ mappings' = Store(mappings, field[k], name')
    /\ names_l' = Append(names_l, name')
    /\ k' = k + 1
    /\ UNCHANGED <<crew_file, principals_file, names_file, crew, principals,
                   names, merged_crew, i, j, field, pc, merged_ids, output,
                   trip_vars>>

\* one pass of "for nconst in field" that queries the names table and finds no
\* row: .values[0] raises IndexError, nothing catches it, the script ends
MapLookupError ==
    /\ pc = "for_nconst"
    /\ k <= Len(field)
    /\ field[k] \notin DOMAIN mappings
    /\ Matches(names, field[k]) = <<>>
    /\ queries' = Append(queries, field[k])
    /\ pc' = "IndexError"
    /\ UNCHANGED <<crew_file, principals_file, names_file, crew, principals,
                   names, merged_crew, mappings, i, j, field, k, names_l, name,
                   merged_ids, output,
                   trip_vars>>

\* the end of "for nconst in field": the cell is replaced by the names, and
\* the loops move to the next column, the next row, or the end of map_crew
MapReplace ==
    /\ pc = "for_nconst"
    /\ k > Len(field)
    /\ merged_crew' = SetCell(merged_crew, i, j, names_l)
    /\ IF j < 3
       THEN /\ i' = i
            /\ j' = j + 1
            /\ field' = Cell(merged_crew', i', j')
            /\ names_l' = <<>>
            /\ k' = 1
            /\ pc' = pc
       ELSE IF i + 1 < Len(merged_crew)
       THEN /\ i' = i + 1
            /\ j' = 1
            /\ field' = Cell(merged_crew', i', j')
            /\ names_l' = <<>>
            /\ k' = 1
            /\ pc' = pc
       ELSE /\ pc' = "write_to_csv"
            /\ UNCHANGED <<i, j, field, names_l, k>>
    /\ UNCHANGED <<crew_file, principals_file, names_file, crew, principals,
                   names, mappings, name, queries, merged_ids, output,
                   trip_vars>>

\* CrewReader.write_to_csv
write_to_csv ==
    /\ pc = "write_to_csv"
    /\ output' = [exists |-> TRUE, rows |-> merged_crew]
    /\ pc' = "done"
    /\ UNCHANGED <<crew_file, principals_file, names_file, crew, principals,
                   names, merged_crew, mappings, i, j, field, k, names_l, name,
                   queries, merged_ids,
                   trip_vars>>

Next ==
    \/ CrewReaderInit
    \/ merge_crew
    \/ MapCrewBegin
    \/ MapCached
    \/ MapLookup
    \/ MapLookupError
    \/ MapReplace
    \/ write_to_csv

Spec == Init /\ [][Next]_vars

----------------------------------------------------------------------------
(* The round trip of merge_crew's join and split, on its own *)

\* the strings of at most n characters, commas included
Strings(n) == UNION { [1..m -> {"p", Comma}] : m \in 0..n }

\* the sequences of at most MaxIds identifiers of at most MaxIdLen characters
IdLists == UNION { [1..m -> Strings(MaxIdLen)] : m \in 0..MaxIds }

InitTrip ==
    /\ ids \in IdLists
    /\ joined = <<>>
    /\ pieces = <<>>
    /\ rejoined = <<>>
    /\ pc = "join"
    /\ crew_file = <<>>
    /\ principals_file = <<>>
    /\ names_file = <<>>
    /\ crew = <<>>
    /\ principals = <<>>
    /\ names = <<>>
    /\ merged_crew = <<>>
    /\ mappings = <<>>
    /\ i = 0
    /\ j = 1
    /\ field = <<>>
    /\ k = 1
    /\ names_l = <<>>
    /\ name = <<>>
    /\ queries = <<>>
    /\ merged_ids = <<>>
    /\ output = NoFile

\* ','.join(x), as merge_crew joins the identifiers of a group
TripJoin ==
    /\ pc = "join"
    /\ joined' = Join(ids)
    /\ pc' = "split"
    /\ UNCHANGED <<main_vars, ids, pieces, rejoined>>

\* .str.split(','), as merge_crew splits a cell
TripSplit ==
    /\ pc = "split"
    /\ pieces' = Split(joined)
    /\ pc' = "rejoin"
    /\ UNCHANGED <<main_vars, ids, joined, rejoined>>

\* the pieces joined again
TripRejoin ==
    /\ pc = "rejoin"
    /\ rejoined' = Join(pieces)
    /\ pc' = "tripped"
    /\ UNCHANGED <<main_vars, ids, joined, pieces>>

NextTrip ==
    \/ TripJoin
    \/ TripSplit
    \/ TripRejoin

SpecTrip == InitTrip /\ [][NextTrip]_vars

----------------------------------------------------------------------------
(* Properties of merge_crew *)

\* merge_crew has returned
AfterMerge == pc \in {"map_crew", "for_nconst", "IndexError", "write_to_csv", "done"}

\* map_crew has returned
AfterMap == pc \in {"write_to_csv", "done"}

\* the film identifiers of a table, row by row
TconstColumn(table) == [n \in 1..Len(table) |-> table[n].tconst]

\* film t has a row in the crew file
InCrewFile(t) == \E n \in 1..Len(crew_file) : crew_file[n].tconst = t

\* film t has an actor row in the principals file
HasActorRow(t) ==
    \E n \in 1..Len(principals_file) :
        principals_file[n].tconst = t /\ principals_file[n].category = "actor"

\* film t is of interest and in both files
Joinable(t) == t \in MOVIE_IDS /\ InCrewFile(t) /\ HasActorRow(t)

\* the person identifiers of the actor rows of film t, in file order
ActorIds(t) ==
    LET rows == SelectSeq(principals_file,
                          LAMBDA r : r.tconst = t /\ r.category = "actor")
    IN  [n \in 1..Len(rows) |-> rows[n].nconst]

\* s has no comma
CommaFree(s) == \A n \in 1..Len(s) : s[n] # Comma

\* C1: every row of merged_crew, and of the written file, is of a film that is
\* in MOVIE_IDS, has a row in the crew file and has an actor row in the
\* principals file.
C1_OutputMembership ==
    AfterMerge =>
        /\ \A n \in 1..Len(merged_crew) : Joinable(merged_crew[n].tconst)
        /\ \A n \in 1..Len(output.rows) : Joinable(output.rows[n].tconst)

\* a file is written with some film while a film outside MOVIE_IDS has a crew
\* row and an actor row
C1_Witness ==
    /\ pc = "done"
    /\ output.rows # <<>>
    /\ \E t \in TconstSet \ MOVIE_IDS : InCrewFile(t) /\ HasActorRow(t)

\* C2 as stated: the actors of every merged row are exactly the person
\* identifiers of the film's actor rows, in file order.
C2_ActorsAreTheActorRows ==
    AfterMerge =>
        \A n \in 1..Len(merged_ids) :
            merged_ids[n].actors = ActorIds(merged_ids[n].tconst)

\* C2 amended: the actors of a merged row are exactly the person identifiers
\* of the film's actor rows, in file order, when none of these identifiers
\* has a comma in it.
C2_ActorsOfCommaFreeRows ==
    AfterMerge =>
        \A n \in 1..Len(merged_ids) :
            (\A m \in 1..Len(ActorIds(merged_ids[n].tconst)) :
                CommaFree(ActorIds(merged_ids[n].tconst)[m]))
            => merged_ids[n].actors = ActorIds(merged_ids[n].tconst)

\* a merged film with two actor rows that are not in ascending order
C2_Witness ==
    /\ AfterMerge
    /\ \E n \in 1..Len(merged_ids) : merged_ids[n].actors = <<Q, P>>

\* C7 as stated: no two rows of merged_crew are of the same film.
C7_OneRowPerFilm ==
    AfterMerge =>
        \A m, n \in 1..Len(merged_crew) :
            m # n => merged_crew[m].tconst # merged_crew[n].tconst

\* no two rows of the crew file are of the same film of interest
CrewFileUnique ==
    \A m, n \in 1..Len(crew_file) :
        (m # n /\ crew_file[m].tconst = crew_file[n].tconst)
            => crew_file[m].tconst \notin MOVIE_IDS

\* C7 amended: when the crew file has no two rows of the same film of
\* interest, no two rows of merged_crew, nor of the written file, are of the
\* same film, whatever the principals file holds.
C7_OneRowPerFilmOfUniqueCrew ==
    (AfterMerge /\ CrewFileUnique) =>
        /\ \A m, n \in 1..Len(merged_crew) :
            m # n => merged_crew[m].tconst # merged_crew[n].tconst
        /\ \A m, n \in 1..Len(output.rows) :
            m # n => output.rows[m].tconst # output.rows[n].tconst

\* a merged film with two actor rows, from a crew file of one row per film
C7_Witness ==
    /\ AfterMerge
    /\ CrewFileUnique
    /\ \E n \in 1..Len(merged_ids) : Len(ActorIds(merged_ids[n].tconst)) = 2

\* C10: every film in MOVIE_IDS with a crew row and an actor row is in
\* merged_crew after merge_crew; map_crew keeps the rows and their film
\* identifiers, and so does the written file.
C10_JoinComplete ==
    AfterMerge =>
        /\ \A t \in TconstSet :
            Joinable(t) => \E n \in 1..Len(merged_crew) : merged_crew[n].tconst = t
        /\ TconstColumn(merged_crew) = TconstColumn(merged_ids)
        /\ output.exists => TconstColumn(output.rows) = TconstColumn(merged_ids)

\* a file is written with two films
C10_Witness ==
    /\ pc = "done"
    /\ \E m, n \in 1..Len(output.rows) : output.rows[m].tconst # output.rows[n].tconst

----------------------------------------------------------------------------
(* Properties of map_crew *)

\* the identifier has a row in the names file
HasNameRow(nconst) ==
    \E r \in 1..Len(names_file) : names_file[r].nconst = nconst

\* d is the display name of some row of the identifier in the names file
IsNameOf(d, nconst) ==
    \E r \in 1..Len(names_file) :
        names_file[r].nconst = nconst /\ names_file[r].primaryName = d

\* d is the display name of the first row of the identifier in the names file
IsFirstNameOf(d, nconst) ==
    \E r \in 1..Len(names_file) :
        /\ names_file[r].nconst = nconst
        /\ names_file[r].primaryName = d
        /\ \A m \in 1..(r - 1) : names_file[m].nconst # nconst

\* the cells of merged_ids: row, column, position
Positions ==
    UNION { { <<n, c, p>> : p \in 1..Len(merged_ids[n][Column(c)]) } :
                n \in 1..Len(merged_ids), c \in 1..3 }

\* the identifier at a position
IdAt(x) == merged_ids[x[1]][Column(x[2])][x[3]]

\* C3: when map_crew has returned, every cell of the three columns has as
\* many names as it had identifiers, and the name at each position is a
\* display name of the identifier that was at that position; so it is in the
\* written file.
C3_NamesAlign ==
    AfterMap =>
        /\ Len(merged_crew) = Len(merged_ids)
        /\ \A n \in 1..Len(merged_ids), c \in 1..3 :
            Len(merged_crew[n][Column(c)]) = Len(merged_ids[n][Column(c)])
        /\ \A x \in Positions :
            IsNameOf(merged_crew[x[1]][Column(x[2])][x[3]], IdAt(x))
        /\ output.exists => output.rows = merged_crew

\* a written row with two directors of different names and a writer who is
\* one of the directors
C3_Witness ==
    /\ pc = "done"
    /\ \E n \in 1..Len(output.rows) :
        /\ merged_ids[n].directors = <<P, Q>>
        /\ merged_ids[n].writers = <<P>>
        /\ output.rows[n].directors = <<NameA, NameB>>
        /\ output.rows[n].writers = <<NameA>>

\* some identifier of merged_crew has no row in the names file
Unresolvable == \E x \in Positions : ~HasNameRow(IdAt(x))

\* C4: when some identifier of a merged record has no row in the names file,
\* the run never reaches write_to_csv and ends in the lookup failure; a file
\* is written only when every identifier has a row, and it holds every record.
C4_AllOrNothing ==
    /\ (AfterMerge /\ Unresolvable) =>
        /\ pc \notin {"write_to_csv", "done"}
        /\ ~output.exists
        /\ (~ENABLED Next) => pc = "IndexError"
    /\ pc = "IndexError" => (Unresolvable /\ ~output.exists)
    /\ output.exists =>
        /\ ~Unresolvable
        /\ Len(output.rows) = Len(merged_ids)

\* the run has ended in a lookup failure after it replaced some cell, and no
\* file is written
C4_Witness ==
    /\ pc = "IndexError"
    /\ j > 1
    /\ ~output.exists
    /\ ~(ENABLED Next)

\* no value occurs twice in the sequence
NoDuplicates(s) == \A m, n \in 1..Len(s) : m # n => s[m] # s[n]

\* C5: a pass of map_crew on an identifier that is a key of mappings yields
\* the cached value and queries nothing; no identifier is queried twice; an
\* entry of mappings is never changed or removed.
C5_CacheIsStable ==
    [][ /\ \A x \in DOMAIN mappings :
            x \in DOMAIN mappings' /\ mappings'[x] = mappings[x]
        /\ (pc = "for_nconst" /\ k <= Len(field) /\ field[k] \in DOMAIN mappings) =>
            /\ name' = mappings[field[k]]
            /\ names_l' = Append(names_l, mappings[field[k]])
            /\ queries' = queries
        /\ NoDuplicates(queries') ]_vars

\* a written row whose writer was resolved from the cache, after two queries
C5_Witness ==
    /\ pc = "done"
    /\ queries = <<P, Q>>
    /\ \E n \in 1..Len(merged_ids) :
        merged_ids[n].directors = <<P, Q>> /\ merged_ids[n].writers = <<P>>

\* C8: an identifier is resolved to the display name of its first row in the
\* names file, in mappings and at every position of every cell.
C8_FirstMatch ==
    /\ \A x \in DOMAIN mappings : IsFirstNameOf(mappings[x], x)
    /\ AfterMap =>
        \A x \in Positions :
            IsFirstNameOf(merged_crew[x[1]][Column(x[2])][x[3]], IdAt(x))

\* a file is written from a names file of two rows of one identifier with
\* different display names, the identifier occurring in several cells
C8_Witness ==
    /\ pc = "done"
    /\ Len(names_file) = 2
    /\ names_file[1].nconst = names_file[2].nconst
    /\ names_file[1].primaryName # names_file[2].primaryName
    /\ \E n \in 1..Len(output.rows) :
        /\ merged_ids[n].directors = <<names_file[1].nconst>>
        /\ merged_ids[n].actors = <<names_file[1].nconst>>
        /\ output.rows[n].directors = <<names_file[1].primaryName>>
        /\ output.rows[n].actors = <<names_file[1].primaryName>>

\* the rows of the crew file that merge_crew keeps
KeptCrew == SelectSeq(crew_file, LAMBDA r : Joinable(r.tconst))

\* C9: a director or writer cell that is the marker becomes the one-element
\* sequence of the marker; map_crew resolves the marker through the names
\* file: to the display name of its row, or, with no row, by failing.
C9_MarkerIsAnIdentifier ==
    AfterMerge =>
        /\ Len(merged_ids) = Len(KeptCrew)
        /\ \A n \in 1..Len(merged_ids) :
            /\ KeptCrew[n].directors = NoValue => merged_ids[n].directors = <<NoValue>>
            /\ KeptCrew[n].writers = NoValue => merged_ids[n].writers = <<NoValue>>
        /\ \A x \in Positions :
            IdAt(x) = NoValue =>
                /\ ~HasNameRow(NoValue) => pc \notin {"write_to_csv", "done"}
                /\ AfterMap =>
                    IsNameOf(merged_crew[x[1]][Column(x[2])][x[3]], NoValue)
        /\ (pc = "IndexError" /\ field[k] = NoValue) => ~HasNameRow(NoValue)

\* the run has failed on the marker of a film of no known director
C9_Witness ==
    /\ pc = "IndexError"
    /\ field = <<NoValue>>
    /\ \E n \in 1..Len(KeptCrew) : KeptCrew[n].directors = NoValue

\* a file is written where the marker is resolved to a display name
C9_Resolved ==
    /\ pc = "done"
    /\ \E n \in 1..Len(output.rows) :
        merged_ids[n].directors = <<NoValue>> /\ output.rows[n].directors = <<NameA>>

----------------------------------------------------------------------------
(* Properties of the round trip *)

====
